---- MODULE Spec2Model ----
(***************************************************************************)
(* Model of tracer/tracer.py: class Tracer, which follows a concrete      *)
(* basic block trace (produced by driller-qemu) with a symbolic path      *)
(* group (angr).  The symbolic engine and the emulator are external; what *)
(* they hand back (exit code, trace, successors of a step) is drawn       *)
(* nondeterministically from small sets.                                   *)
(***************************************************************************)
EXTENDS Integers, Sequences, FiniteSets, TLC

(* ------------------------------ bounds -------------------------------- *)
NAddr == 3          \* basic block addresses are 1..NAddr
MaxTrace == 3       \* longest trace the emulator writes
MaxSucc == 2        \* most successors one engine step yields
MaxInput == 2       \* longest concrete input
MaxExtra == 1       \* constraints a path collects besides the preconstraints
MaxDead == 1        \* most paths the engine lets run out of successors
MaxRepeat == 2      \* repeated blocks in a row that are counted
MaxRecs == 2        \* most memory entries of a dump
MaxContent == 2     \* most bytes of a memory entry

(* -------------------------- program constants ------------------------- *)
SIGSEGV == 11
SIGILL == 4
TrapOffset == 2
EipAdjust == 2

Addr == 1..NAddr
Byte == {0, 1}
Entries == {-1, 0}                   \* project.entry; entry + TrapOffset \in Addr
\* p.wait() of the emulator: an exit status, or minus the signal that ended it
RetCodes == {0, 1, SIGSEGV, -SIGILL, -SIGSEGV, -(SIGILL + 1)}
FileStatus == {"missing", "noexec", "exec"}

SeqsUpTo(S, n) == UNION {[1..k -> S] : k \in 0..n}

Abs(x) == IF x < 0 THEN -x ELSE x

VARIABLES
  pc,             \* where the tracer is: new, trace, read, prepare, ready, failed,
                  \* loop (line 82), filter (line 111), while (line 138)
  mode,           \* the exposed call in progress: none, next_branch, run1, run2
  binary,         \* status of the file self.binary
  driller_qemu,   \* status of the file self.driller_qemu
  input,          \* self.input
  preconstrain,   \* self.preconstrain
  ret,            \* _dynamic_trace(): the local ret, 0 outside of it
  crash_mode,     \* self.crash_mode
  trace,          \* self.trace
  preconstraints, \* self.preconstraints
  entry,          \* project.entry
  bb_cnt,         \* self.bb_cnt
  previous,       \* self.previous: <<>> is None, <<a>> is address a
  path_group,     \* self.path_group
  branches,       \* run(): the local variable branches
  last_call,      \* what the caller did last: none, new, next_branch, run, obtain,
                  \* remove
  error,          \* the exception that call raised, or none
  returned,       \* the path group that call returned
  oob,            \* the call in progress, or ended last, indexed the trace past its end
  spawned,        \* processes spawned so far
  mktemps,        \* temporary files created so far
  tmpfiles,       \* temporary files that exist
  path_cons,      \* path.state.se.constraints of the path the caller holds
  repeats,        \* blocks passed over as repeated (line 98) since the last match
  snapshot        \* _load_backed(): the dump file, and memory and regs read from it

vars == <<pc, mode, binary, driller_qemu, input, preconstrain, ret, crash_mode,
          trace, preconstraints, entry, bb_cnt, previous, path_group, branches,
          last_call, error, returned, oob, spawned, mktemps, tmpfiles, path_cons,
          repeats, snapshot>>

(* ----------------------------- path groups ---------------------------- *)
EmptyPG == [active |-> <<>>, unsat |-> <<>>, missed |-> <<>>,
            crashed |-> <<>>, deadended |-> <<>>]

Stashes == {"active", "unsat", "missed", "crashed", "deadended"}

\* PathGroup.stash(from_stash, to_stash)
stash(pg, from, to) ==
  IF from = to THEN pg
  ELSE [pg EXCEPT ![to] = pg[to] \o pg[from], ![from] = <<>>]

\* PathGroup.drop(stash)
drop(pg, s) == [pg EXCEPT ![s] = <<>>]

\* PathGroup.stash_not_addr(addr, to_stash), from the active stash
stash_not_addr(pg, addr, to) ==
  LET Off(p) == p.addr # addr
      On(p) == p.addr = addr
  IN [pg EXCEPT ![to] = pg[to] \o SelectSeq(pg.active, Off),
                !["active"] = SelectSeq(pg.active, On)]

Path(a) == [addr |-> a]

Succ == [addr : Addr, sat : BOOLEAN]
SuccSeqs == SeqsUpTo(Succ, MaxSucc)

\* PathGroup.step() of a group with one active path p, whose successors the
\* engine reports as succs: satisfiable ones become active, the others go to
\* unsat (save_unsat=True), and p is deadended when none is satisfiable.
step(pg, succs) ==
  LET p == pg.active[1]
      IsSat(s) == s.sat
      IsUnsat(s) == ~s.sat
      sats == SelectSeq(succs, IsSat)
      unsats == SelectSeq(succs, IsUnsat)
      Child(s) == Path(s.addr)
  IN [pg EXCEPT !["active"] = [i \in 1..Len(sats) |-> Child(sats[i])],
                !["unsat"] = pg.unsat \o [i \in 1..Len(unsats) |-> Child(unsats[i])],
                !["deadended"] = pg.deadended \o
                                   (IF sats = <<>> THEN <<p>> ELSE <<>>)]

(* ------------------------------- terms -------------------------------- *)
\* claripy ASTs, as tuples tagged by their operator
TrueT == <<"true">>
EqT(off, val) == <<"eq", off, val>>      \* stdin.read(1) at offset off == BVV(val)
NotT(t) == <<"not", t>>
AndT(a, b) == <<"and", a, b>>

\* replace() that looks at the whole constraint only
replace_top(c, old, new) == IF c = old THEN new ELSE c

RECURSIVE replace(_, _, _)
\* c.replace(old, new): every sub-term of c structurally equal to old is new
replace(c, old, new) ==
  IF c = old THEN new
  ELSE IF c[1] = "not" THEN NotT(replace(c[2], old, new))
  ELSE IF c[1] = "and" THEN AndT(replace(c[2], old, new), replace(c[3], old, new))
  ELSE c

RECURSIVE Contains(_, _)
Contains(c, t) ==
  \/ c = t
  \/ c[1] = "not" /\ Contains(c[2], t)
  \/ c[1] = "and" /\ (Contains(c[2], t) \/ Contains(c[3], t))

(* ---------------------------- construction ---------------------------- *)
X_OK(f) == f = "exec"          \* os.access(f, os.X_OK)
isfile(f) == f # "missing"     \* os.path.isfile(f)

\* _sane() without the check of the emulator
_sane_binary_only(b, q) == X_OK(b)

\* Tracer._sane()
_sane(b, q) ==
  LET sane0 == TRUE
      sane1 == IF ~X_OK(b) THEN (IF isfile(b) THEN FALSE ELSE FALSE) ELSE sane0
      sane2 == IF ~X_OK(q) THEN (IF isfile(q) THEN FALSE ELSE FALSE) ELSE sane1
  IN sane2

\* no dump has been written or read
NoSnapshot == [phase |-> "none", recs |-> <<>>, rawip |-> 0, file |-> <<>>,
               memory |-> <<>>, regs |-> <<>>]

Init ==
  /\ pc = "new"
  /\ mode = "none"
  /\ binary = "missing"
  /\ driller_qemu = "missing"
  /\ input = <<>>
  /\ preconstrain = FALSE
  /\ ret = 0
  /\ crash_mode = FALSE
  /\ trace = <<>>
  /\ preconstraints = <<>>
  /\ entry = 0
  /\ bb_cnt = 0
  /\ previous = <<>>
  /\ path_group = EmptyPG
  /\ branches = EmptyPG
  /\ last_call = "none"
  /\ error = "none"
  /\ returned = EmptyPG
  /\ oob = FALSE
  /\ spawned = 0
  /\ mktemps = 0
  /\ tmpfiles = {}
  /\ path_cons = <<>>
  /\ repeats = 0
  /\ snapshot = NoSnapshot

\* Tracer.__init__, lines 36-48: the arguments are stored and the environment
\* is checked
Tracer_init(b, q, inp, pre) ==
  /\ pc = "new"
  /\ binary' = b
  /\ driller_qemu' = q
  /\ input' = inp
  /\ preconstrain' = pre
  /\ IF ~_sane(b, q)
       THEN /\ pc' = "failed"
            /\ last_call' = "new"
            /\ error' = "TracerEnvironmentError"
       ELSE /\ pc' = "trace"
            /\ UNCHANGED <<last_call, error>>
  /\ UNCHANGED <<mode, ret, crash_mode, trace, preconstraints, entry, bb_cnt,
                 previous, path_group, branches, returned, oob, spawned, mktemps,
                 tmpfiles, path_cons, repeats, snapshot>>

\* the test of line 225 without the test of line 224
crashed_by_abs(r) == Abs(r) = SIGSEGV \/ Abs(r) = SIGILL

\* did a crash occur?  (lines 224-228)
crashed_by(r) == r < 0 /\ (Abs(r) = SIGSEGV \/ Abs(r) = SIGILL)

\* Tracer.__init__ line 53 and _dynamic_trace lines 213-228: the log file is
\* made, the emulator is run on the input and its exit code r decides crash_mode
_dynamic_trace_run(r) ==
  /\ pc = "trace"
  /\ mktemps' = mktemps + 1
  /\ tmpfiles' = tmpfiles \cup {"driller-trace-"}
  /\ spawned' = spawned + 1
  /\ ret' = r
  /\ crash_mode' = crashed_by(r)
  /\ pc' = "read"
  /\ UNCHANGED <<mode, binary, driller_qemu, input, preconstrain, trace,
                 preconstraints, entry, bb_cnt, previous, path_group, branches,
                 last_call, error, returned, oob, path_cons,
                 repeats, snapshot>>

\* _dynamic_trace lines 231-240: the log is read and removed; t is the list of
\* the addresses of its Trace lines
_dynamic_trace_read(t) ==
  /\ pc = "read"
  /\ tmpfiles' = tmpfiles \ {"driller-trace-"}
  /\ trace' = t
  /\ ret' = 0
  /\ pc' = "prepare"
  /\ UNCHANGED <<mode, binary, driller_qemu, input, preconstrain, crash_mode,
                 preconstraints, entry, bb_cnt, previous, path_group, branches,
                 last_call, error, returned, oob, spawned, mktemps, path_cons,
                 repeats, snapshot>>

\* _dynamic_trace lines 213-220: the log file is made and subprocess.Popen
\* raises OSError (the emulator cannot be executed); line 234 is not reached
_dynamic_trace_oserror ==
  /\ pc = "trace"
  /\ mktemps' = mktemps + 1
  /\ tmpfiles' = tmpfiles \cup {"driller-trace-"}
  /\ crash_mode' = FALSE
  /\ pc' = "failed"
  /\ last_call' = "new"
  /\ error' = "OSError"
  /\ UNCHANGED <<mode, binary, driller_qemu, input, preconstrain, ret, trace,
                 preconstraints, entry, bb_cnt, previous, path_group, branches,
                 returned, oob, spawned, path_cons, repeats, snapshot>>

At(t, i) == t[i + 1]       \* t[i] of a Python list

\* no windup: bb_cnt stays where it is
windup_none(t, cnt, target) == cnt

RECURSIVE windup(_, _, _)
\* _prepare_paths lines 381-382: the value of bb_cnt when the loop ends, which
\* is Len(t) when indexing the trace raised IndexError
windup(t, cnt, target) ==
  IF cnt >= Len(t) THEN cnt
  ELSE IF At(t, cnt) # target THEN windup(t, cnt + 1, target)
  ELSE cnt

(* ----------------------------- the snapshot --------------------------- *)
REGS == <<82, 69, 71, 83>>          \* the tag "REGS" of line 263

RECURSIVE unpack(_)
\* struct.unpack("<I", b)[0], and likewise "<Q" and "B": b read little-endian
unpack(b) == IF b = <<>> THEN 0 ELSE Head(b) + 256 * unpack(Tail(b))

RECURSIVE pack(_, _)
\* the n bytes that unpack reads as v
pack(v, n) == IF n = 0 THEN <<>> ELSE <<v % 256>> \o pack(v \div 256, n - 1)

\* f.read(n) of a file at position pos: the bytes that are left, at most n
read(file, pos, n) ==
  SubSeq(file, pos + 1, IF pos + n <= Len(file) THEN pos + n ELSE Len(file))

\* the register block in the order of its reads (lines 271-350), each with the
\* struct format of the read; "QQ" is a register read as two "<Q" halves
RegLayout ==
  << <<"eax", "I">>, <<"ebx", "I">>, <<"ecx", "I">>, <<"edx", "I">>,
     <<"esi", "I">>, <<"edi", "I">>, <<"ebp", "I">>, <<"esp", "I">>,
     <<"d", "I">>, <<"eip", "I">>,
     <<"st0", "QQ">>, <<"st1", "QQ">>, <<"st2", "QQ">>, <<"st3", "QQ">>,
     <<"st4", "QQ">>, <<"st5", "QQ">>, <<"st6", "QQ">>, <<"st7", "QQ">>,
     <<"fpu_t0", "B">>, <<"fpu_t1", "B">>, <<"fpu_t2", "B">>, <<"fpu_t3", "B">>,
     <<"fpu_t4", "B">>, <<"fpu_t5", "B">>, <<"fpu_t6", "B">>, <<"fpu_t7", "B">>,
     <<"ftop", "I">>, <<"mxcsr", "I">>,
     <<"xmm0", "QQ">>, <<"xmm1", "QQ">>, <<"xmm2", "QQ">>, <<"xmm3", "QQ">>,
     <<"xmm4", "QQ">>, <<"xmm5", "QQ">>, <<"xmm6", "QQ">>, <<"xmm7", "QQ">> >>

Width(fmt) == IF fmt = "I" THEN 4 ELSE IF fmt = "QQ" THEN 16 ELSE 1

\* the value of a register without the adjustment of eip
reg_value_raw(name, fmt, b) ==
  IF fmt = "QQ" THEN <<unpack(SubSeq(b, 1, 8)), unpack(SubSeq(b, 9, 16))>>
  ELSE unpack(b)

\* the value stored for a register read as the bytes b (lines 271-350): eip is
\* adjusted by 2, and <<low, high>> stands for low | high << 64
reg_value(name, fmt, b) ==
  IF fmt = "QQ" THEN <<unpack(SubSeq(b, 1, 8)), unpack(SubSeq(b, 9, 16))>>
  ELSE IF name = "eip" THEN unpack(b) - EipAdjust
  ELSE unpack(b)

StructError == [error |-> "struct.error", memory |-> <<>>, regs |-> <<>>]

RECURSIVE parse_regs(_, _, _, _)
\* lines 271-350 from register i of the layout on; a read that yields fewer
\* bytes than the format makes struct.unpack raise
parse_regs(file, pos, i, regs) ==
  IF i > Len(RegLayout) THEN [error |-> "none", regs |-> regs]
  ELSE LET name == RegLayout[i][1]
           fmt == RegLayout[i][2]
           b == read(file, pos, Width(fmt))
       IN IF Len(b) < Width(fmt) THEN [error |-> "struct.error", regs |-> regs]
          ELSE parse_regs(file, pos + Width(fmt), i + 1,
                          (name :> reg_value(name, fmt, b)) @@ regs)

RECURSIVE parse_predump(_, _, _)
\* lines 258-350: the loop that reads the dump from position pos on, memory
\* being the dict filled so far
parse_predump(file, pos, memory) ==
  LET tag == read(file, pos, 4)
  IN IF tag # REGS
       THEN LET e == read(file, pos + 4, 4)
                l == read(file, pos + 8, 4)
                start == unpack(tag)
                length == unpack(l)
                content == read(file, pos + 12, length)
            IN IF Len(tag) < 4 \/ Len(e) < 4 \/ Len(l) < 4 THEN StructError
               ELSE parse_predump(file, pos + 12 + Len(content),
                                  (start :> content) @@ memory)
       ELSE LET r == parse_regs(file, pos + 4, 1, <<>>)
            IN IF r.error # "none" THEN StructError
               ELSE [error |-> "none", memory |-> memory, regs |-> r.regs]

\* What the emulator writes with -predump: memory entries (start, end, length,
\* bytes) of distinct regions, the register block, and whatever follows it.
DumpByte == {65, 144}
Starts == {4096, 8192}
RawIps == {2, 134512768}                       \* 0x2, 0x08048080
Rec == [start : Starts, content : SeqsUpTo(DumpByte, MaxContent)]
RecSeqs == {rs \in SeqsUpTo(Rec, MaxRecs) :
              \A i, j \in 1..Len(rs) : rs[i].start = rs[j].start => i = j}
Trailers == {<<>>, <<[start |-> 4096, content |-> <<65>>]>>}

RECURSIVE dump_recs(_)
dump_recs(rs) ==
  IF rs = <<>> THEN <<>>
  ELSE LET r == Head(rs)
       IN pack(r.start, 4) \o pack(r.start + Len(r.content), 4)
            \o pack(Len(r.content), 4) \o r.content \o dump_recs(Tail(rs))

RECURSIVE dump_regs(_, _)
\* register i of the layout holds i, but eip holds rawip and the high half of
\* a wide register holds i + 100
dump_regs(i, rawip) ==
  IF i > Len(RegLayout) THEN <<>>
  ELSE LET name == RegLayout[i][1]
           fmt == RegLayout[i][2]
           b == IF name = "eip" THEN pack(rawip, 4)
                ELSE IF fmt = "QQ" THEN pack(i, 8) \o pack(i + 100, 8)
                ELSE pack(i, Width(fmt))
       IN b \o dump_regs(i + 1, rawip)

\* a dump is cut when the emulator ended before it wrote the register block
dump(rs, rawip, cut, rest) ==
  IF cut THEN dump_recs(rs)
  ELSE dump_recs(rs) \o REGS \o dump_regs(1, rawip) \o dump_recs(rest)

\* _load_backed lines 248-255: the file is made and the emulator writes the dump
_load_backed_predump(rs, rawip, cut, rest) ==
  /\ pc = "prepare"
  /\ snapshot.phase = "none"
  /\ mktemps' = mktemps + 1
  /\ tmpfiles' = tmpfiles \cup {"driller-backing-"}
  /\ spawned' = spawned + 1
  /\ snapshot' = [phase |-> "dumped", recs |-> rs, rawip |-> rawip,
                  file |-> dump(rs, rawip, cut, rest),
                  memory |-> <<>>, regs |-> <<>>]
  /\ UNCHANGED <<pc, mode, binary, driller_qemu, input, preconstrain, ret,
                 crash_mode, trace, preconstraints, entry, bb_cnt, previous,
                 path_group, branches, last_call, error, returned, oob,
                 path_cons, repeats>>

\* _load_backed lines 258-352: the dump is parsed, and removed if that went well
_load_backed_parse ==
  /\ pc = "prepare"
  /\ snapshot.phase = "dumped"
  /\ LET d == parse_predump(snapshot.file, 0, <<>>)
     IN IF d.error # "none"
          THEN /\ snapshot' = [snapshot EXCEPT !.phase = "raised"]
               /\ pc' = "failed"
               /\ last_call' = "new"
               /\ error' = d.error
               /\ UNCHANGED tmpfiles
          ELSE /\ snapshot' = [snapshot EXCEPT !.phase = "parsed",
                                               !.memory = d.memory,
                                               !.regs = d.regs]
               /\ tmpfiles' = tmpfiles \ {"driller-backing-"}
               /\ UNCHANGED <<pc, last_call, error>>
  /\ UNCHANGED <<mode, binary, driller_qemu, input, preconstrain, ret,
                 crash_mode, trace, preconstraints, entry, bb_cnt, previous,
                 path_group, branches, returned, oob, spawned, mktemps,
                 path_cons, repeats>>

RECURSIVE preconstrain_loop(_, _, _)
\* _preconstrain_state lines 367-370: one constraint per byte of the input that
\* is left, stdin.read(1) reading at position pos and moving it on by one
preconstrain_loop(inp, pos, acc) ==
  IF inp = <<>> THEN acc
  ELSE preconstrain_loop(Tail(inp), pos + 1, Append(acc, EqT(pos, Head(inp))))

\* _preconstrain_state() that stops one byte early
_preconstrain_state_short(inp) ==
  preconstrain_loop(SubSeq(inp, 1, Len(inp) - 1), 0, <<>>)

\* Tracer._preconstrain_state
_preconstrain_state(inp) == preconstrain_loop(inp, 0, <<>>)

\* Tracer.__init__ lines 60-68 and _prepare_paths: the snapshot is taken
\* (_load_backed spawns the emulator on a second temporary file), bb_cnt is
\* wound up to the entry, the entry state is preconstrained and stepped once
_prepare_paths(e, succs) ==
  /\ pc = "prepare"
  /\ mktemps' = mktemps + 1
  /\ spawned' = spawned + 1
  /\ tmpfiles' = tmpfiles
  /\ entry' = e
  /\ previous' = <<>>
  /\ repeats' = 0
  /\ bb_cnt' = windup(trace, 0, e + TrapOffset)
  /\ IF bb_cnt' >= Len(trace)
       THEN /\ pc' = "failed"
            /\ last_call' = "new"
            /\ error' = "IndexError"
            /\ preconstraints' = <<>>
            /\ path_group' = EmptyPG
       ELSE /\ pc' = "ready"
            /\ last_call' = "new"
            /\ error' = "none"
            /\ preconstraints' = IF preconstrain THEN _preconstrain_state(input)
                                                 ELSE <<>>
            /\ path_group' = step([EmptyPG EXCEPT !["active"] = <<Path(e)>>], succs)
  /\ UNCHANGED <<mode, binary, driller_qemu, input, preconstrain, ret, crash_mode,
                 trace, branches, returned, oob, path_cons, snapshot>>

\* _load_backed lines 248-285 when the dump cannot be had: the file is made,
\* then either subprocess.Popen raises OSError, or the emulator ran and left a
\* dump that ends before its register block, on which struct.unpack raises
\* struct.error; line 352 is not reached
_load_backed_raises(exc) ==
  /\ pc = "prepare"
  /\ mktemps' = mktemps + 1
  /\ tmpfiles' = tmpfiles \cup {"driller-backing-"}
  /\ spawned' = IF exc = "OSError" THEN spawned ELSE spawned + 1
  /\ pc' = "failed"
  /\ last_call' = "new"
  /\ error' = exc
  /\ UNCHANGED <<mode, binary, driller_qemu, input, preconstrain, ret, crash_mode,
                 trace, preconstraints, entry, bb_cnt, previous, path_group,
                 branches, returned, oob, path_cons, repeats, snapshot>>

(* ------------------------------ next_branch --------------------------- *)
\* lines 108-115: the engine steps, unsat paths are made active again when the
\* input was preconstrained, and the unsat stash is dropped
step_and_filter(pg, succs) ==
  LET stepped == step(pg, succs)
      kept == IF preconstrain THEN stash(stepped, "unsat", "active") ELSE stepped
  IN drop(kept, "unsat")

\* next_branch returns rpg: to the caller, or into run()'s branches (lines 137, 140)
nb_return(rpg) ==
  IF mode = "next_branch"
  THEN /\ pc' = "ready"
       /\ mode' = "none"
       /\ last_call' = "next_branch"
       /\ error' = "none"
       /\ returned' = rpg
       /\ UNCHANGED branches
  ELSE /\ pc' = "while"
       /\ mode' = "run2"
       /\ branches' = rpg
       /\ UNCHANGED <<last_call, error, returned>>

\* next_branch raises e: to the caller, through run() (line 137, and line 140 for
\* what is no IndexError), or into run()'s except clause (lines 141-149)
nb_raise(e) ==
  IF mode = "next_branch"
  THEN /\ pc' = "ready"
       /\ mode' = "none"
       /\ last_call' = "next_branch"
       /\ error' = e
       /\ UNCHANGED <<returned, branches>>
  ELSE IF mode = "run1" \/ e # "IndexError"
  THEN /\ pc' = "ready"
       /\ mode' = "none"
       /\ last_call' = "run"
       /\ error' = e
       /\ branches' = EmptyPG
       /\ UNCHANGED returned
  ELSE IF crash_mode
  THEN /\ pc' = "ready"
       /\ mode' = "none"
       /\ last_call' = "run"
       /\ error' = "none"
       /\ returned' = stash(path_group, "active", "crashed")
       /\ branches' = EmptyPG
  ELSE /\ pc' = "while"
       /\ UNCHANGED <<mode, last_call, error, returned, branches>>

\* the caller calls next_branch()
call_next_branch ==
  /\ pc = "ready"
  /\ pc' = "loop"
  /\ mode' = "next_branch"
  /\ last_call' = "none"
  /\ error' = "none"
  /\ returned' = EmptyPG
  /\ oob' = FALSE
  /\ path_cons' = <<>>
  /\ UNCHANGED <<binary, driller_qemu, input, preconstrain, ret, crash_mode, trace,
                 preconstraints, entry, bb_cnt, previous, path_group, branches,
                 spawned, mktemps, tmpfiles, repeats, snapshot>>

\* the caller calls run(), which calls next_branch() (line 137)
call_run ==
  /\ pc = "ready"
  /\ pc' = "loop"
  /\ mode' = "run1"
  /\ last_call' = "none"
  /\ error' = "none"
  /\ returned' = EmptyPG
  /\ oob' = FALSE
  /\ path_cons' = <<>>
  /\ UNCHANGED <<binary, driller_qemu, input, preconstrain, ret, crash_mode, trace,
                 preconstraints, entry, bb_cnt, previous, path_group, branches,
                 spawned, mktemps, tmpfiles, repeats, snapshot>>

OneActive == pc = "loop" /\ Len(path_group.active) = 1
current == path_group.active[1]
InTrace == bb_cnt < Len(trace)

\* line 92 with bb_cnt past the end of the trace: IndexError
nb_index_error ==
  /\ OneActive
  /\ ~InTrace
  /\ oob' = TRUE
  /\ nb_raise("IndexError")
  /\ UNCHANGED <<binary, driller_qemu, input, preconstrain, ret, crash_mode, trace,
                 preconstraints, entry, bb_cnt, previous, path_group, spawned,
                 mktemps, tmpfiles, path_cons, repeats, snapshot>>

\* the matching step that leaves bb_cnt as it is
nb_lockstep_no_advance(succs) ==
  /\ OneActive
  /\ InTrace
  /\ current.addr = At(trace, bb_cnt)
  /\ bb_cnt' = bb_cnt
  /\ previous' = <<current.addr>>
  /\ repeats' = 0
  /\ path_group' = step_and_filter(path_group, succs)
  /\ Len(path_group'.deadended) <= MaxDead
  /\ UNCHANGED <<pc, mode, binary, driller_qemu, input, preconstrain, ret,
                 crash_mode, trace, preconstraints, entry, branches, last_call,
                 error, returned, oob, spawned, mktemps, tmpfiles, path_cons,
                 snapshot>>

\* lines 92-93 and 107-115: the path is at the next block of the trace
nb_lockstep(succs) ==
  /\ OneActive
  /\ InTrace
  /\ current.addr = At(trace, bb_cnt)
  /\ bb_cnt' = bb_cnt + 1
  /\ previous' = <<current.addr>>
  /\ repeats' = 0
  /\ path_group' = step_and_filter(path_group, succs)
  /\ Len(path_group'.deadended) <= MaxDead
  /\ UNCHANGED <<pc, mode, binary, driller_qemu, input, preconstrain, ret,
                 crash_mode, trace, preconstraints, entry, branches, last_call,
                 error, returned, oob, spawned, mktemps, tmpfiles, path_cons,
                 snapshot>>

\* the repeated block that moves bb_cnt on like a matching one
nb_repeat_advance(succs) ==
  /\ OneActive
  /\ InTrace
  /\ current.addr # At(trace, bb_cnt)
  /\ <<current.addr>> = previous
  /\ bb_cnt' = bb_cnt + 1
  /\ previous' = <<current.addr>>
  /\ repeats' = IF repeats < MaxRepeat THEN repeats + 1 ELSE repeats
  /\ path_group' = step_and_filter(path_group, succs)
  /\ Len(path_group'.deadended) <= MaxDead
  /\ UNCHANGED <<pc, mode, binary, driller_qemu, input, preconstrain, ret,
                 crash_mode, trace, preconstraints, entry, branches,
                 last_call, error, returned, oob, spawned, mktemps, tmpfiles,
                 path_cons, snapshot>>

\* lines 97-98 and 107-115: the path is at the block it was at before
nb_repeat(succs) ==
  /\ OneActive
  /\ InTrace
  /\ current.addr # At(trace, bb_cnt)
  /\ <<current.addr>> = previous
  /\ previous' = <<current.addr>>
  /\ repeats' = IF repeats < MaxRepeat THEN repeats + 1 ELSE repeats
  /\ path_group' = step_and_filter(path_group, succs)
  /\ Len(path_group'.deadended) <= MaxDead
  /\ UNCHANGED <<pc, mode, binary, driller_qemu, input, preconstrain, ret,
                 crash_mode, trace, preconstraints, entry, bb_cnt, branches,
                 last_call, error, returned, oob, spawned, mktemps, tmpfiles,
                 path_cons, snapshot>>

\* lines 92-93 and 107-108, up to the step of the engine: what nb_lockstep
\* does before lines 111-115
nb_lockstep_step(succs) ==
  /\ OneActive
  /\ InTrace
  /\ current.addr = At(trace, bb_cnt)
  /\ bb_cnt' = bb_cnt + 1
  /\ previous' = <<current.addr>>
  /\ repeats' = 0
  /\ path_group' = step(path_group, succs)
  /\ Len(path_group'.deadended) <= MaxDead
  /\ pc' = "filter"
  /\ UNCHANGED <<mode, binary, driller_qemu, input, preconstrain, ret,
                 crash_mode, trace, preconstraints, entry, branches, last_call,
                 error, returned, oob, spawned, mktemps, tmpfiles, path_cons,
                 snapshot>>

\* lines 97-98 and 107-108, up to the step of the engine: what nb_repeat does
\* before lines 111-115
nb_repeat_step(succs) ==
  /\ OneActive
  /\ InTrace
  /\ current.addr # At(trace, bb_cnt)
  /\ <<current.addr>> = previous
  /\ previous' = <<current.addr>>
  /\ repeats' = IF repeats < MaxRepeat THEN repeats + 1 ELSE repeats
  /\ path_group' = step(path_group, succs)
  /\ Len(path_group'.deadended) <= MaxDead
  /\ pc' = "filter"
  /\ UNCHANGED <<mode, binary, driller_qemu, input, preconstrain, ret,
                 crash_mode, trace, preconstraints, entry, bb_cnt, branches,
                 last_call, error, returned, oob, spawned, mktemps, tmpfiles,
                 path_cons, snapshot>>

\* lines 111-115 that drop the unsat paths whether the input was
\* preconstrained or not
nb_filter_drop ==
  /\ pc = "filter"
  /\ path_group' = drop(path_group, "unsat")
  /\ pc' = "loop"
  /\ UNCHANGED <<mode, binary, driller_qemu, input, preconstrain, ret,
                 crash_mode, trace, preconstraints, entry, bb_cnt, previous,
                 branches, last_call, error, returned, oob, spawned, mktemps,
                 tmpfiles, path_cons, repeats, snapshot>>

\* lines 111-115, after the step of the engine: unsat paths are made active
\* when the input was preconstrained, and the unsat stash is dropped
nb_filter ==
  /\ pc = "filter"
  /\ path_group' = drop(IF preconstrain THEN stash(path_group, "unsat", "active")
                                        ELSE path_group, "unsat")
  /\ pc' = "loop"
  /\ UNCHANGED <<mode, binary, driller_qemu, input, preconstrain, ret,
                 crash_mode, trace, preconstraints, entry, bb_cnt, previous,
                 branches, last_call, error, returned, oob, spawned, mktemps,
                 tmpfiles, path_cons, repeats, snapshot>>

\* a disagreement that is passed over like a repeated block
nb_misfollow_pass ==
  /\ OneActive
  /\ InTrace
  /\ current.addr # At(trace, bb_cnt)
  /\ <<current.addr>> # previous
  /\ previous' = <<current.addr>>
  /\ \E succs \in SuccSeqs : path_group' = step_and_filter(path_group, succs)
  /\ Len(path_group'.deadended) <= MaxDead
  /\ UNCHANGED <<pc, mode, binary, driller_qemu, input, preconstrain, ret,
                 crash_mode, trace, preconstraints, entry, bb_cnt, branches,
                 last_call, error, returned, oob, spawned, mktemps, tmpfiles,
                 path_cons, repeats, snapshot>>

\* lines 100-105: the traces disagree
nb_misfollow ==
  /\ OneActive
  /\ InTrace
  /\ current.addr # At(trace, bb_cnt)
  /\ <<current.addr>> # previous
  /\ nb_raise("TracerMisfollowError")
  /\ UNCHANGED <<binary, driller_qemu, input, preconstrain, ret, crash_mode, trace,
                 preconstraints, entry, bb_cnt, previous, path_group, oob, spawned,
                 mktemps, tmpfiles, path_cons, repeats, snapshot>>

\* line 118 with bb_cnt past the end of the trace: IndexError
nb_split_index_error ==
  /\ pc = "loop"
  /\ Len(path_group.active) # 1
  /\ ~InTrace
  /\ oob' = TRUE
  /\ nb_raise("IndexError")
  /\ UNCHANGED <<binary, driller_qemu, input, preconstrain, ret, crash_mode, trace,
                 preconstraints, entry, bb_cnt, previous, path_group, spawned,
                 mktemps, tmpfiles, path_cons, repeats, snapshot>>

\* the split with the test the wrong way round: the paths on the trace go
split_on_trace(pg) ==
  LET Off(p) == p.addr # At(trace, bb_cnt)
      On(p) == p.addr = At(trace, bb_cnt)
  IN [pg EXCEPT !["missed"] = pg.missed \o SelectSeq(pg.active, On),
                !["active"] = SelectSeq(pg.active, Off)]

\* lines 119-121: the paths off the trace are put into missed
split(pg) == stash_not_addr(pg, At(trace, bb_cnt), "missed")

\* the branch taken without line 124: the tracer keeps the missed paths too
nb_split_keep_missed ==
  /\ pc = "loop"
  /\ Len(path_group.active) # 1
  /\ InTrace
  /\ path_group' = split(path_group)
  /\ nb_return(split(path_group))
  /\ UNCHANGED <<binary, driller_qemu, input, preconstrain, ret, crash_mode, trace,
                 preconstraints, entry, bb_cnt, previous, oob, spawned, mktemps,
                 tmpfiles, path_cons, repeats, snapshot>>

\* lines 117-126: the branch is taken; the group with the missed paths is
\* returned and the tracer keeps it without them
nb_split ==
  /\ pc = "loop"
  /\ Len(path_group.active) # 1
  /\ InTrace
  /\ path_group' = drop(split(path_group), "missed")
  /\ nb_return(split(path_group))
  /\ UNCHANGED <<binary, driller_qemu, input, preconstrain, ret, crash_mode, trace,
                 preconstraints, entry, bb_cnt, previous, oob, spawned, mktemps,
                 tmpfiles, path_cons, repeats, snapshot>>

(* --------------------------------- run -------------------------------- *)
\* line 138, and line 153 when the loop ends
run_while ==
  /\ pc = "while"
  /\ IF Len(branches.active) # 0
       THEN /\ pc' = "loop"
            /\ UNCHANGED <<mode, branches, last_call, error, returned>>
       ELSE /\ pc' = "ready"
            /\ mode' = "none"
            /\ last_call' = "run"
            /\ error' = "none"
            /\ returned' = branches
            /\ branches' = EmptyPG
  /\ UNCHANGED <<binary, driller_qemu, input, preconstrain, ret, crash_mode, trace,
                 preconstraints, entry, bb_cnt, previous, path_group, oob, spawned,
                 mktemps, tmpfiles, path_cons, repeats, snapshot>>

(* ------------------------- remove_preconstraints ---------------------- *)
\* the constraints a path of the exploration carries: those of the entry state
\* (line 370) and then what the engine added on the way
Atoms == {TrueT} \cup {EqT(o, v) : o \in 0..(MaxInput - 1), v \in Byte}
Terms == Atoms \cup {NotT(a) : a \in Atoms} \cup {AndT(a, b) : a, b \in Atoms}
             \cup {NotT(AndT(a, b)) : a, b \in Atoms}
FewTerms == {NotT(AndT(EqT(0, 0), EqT(0, 1)))}

\* the caller takes a path out of the path group the last call left
obtain_path(Extras) ==
  /\ pc = "ready"
  /\ last_call \notin {"obtain", "remove"}
  /\ \E ex \in Extras : path_cons' = preconstraints \o ex
  /\ last_call' = "obtain"
  /\ UNCHANGED <<pc, mode, binary, driller_qemu, input, preconstrain, ret,
                 crash_mode, trace, preconstraints, entry, bb_cnt, previous,
                 path_group, branches, error, returned, oob, spawned, mktemps,
                 tmpfiles, repeats, snapshot>>

RECURSIVE replace_all(_, _)
\* lines 163-164: the inner loop, over the preconstraints pcs that are left
replace_all(c, pcs) ==
  IF pcs = <<>> THEN c
  ELSE replace_all(replace(c, Head(pcs), TrueT), Tail(pcs))

\* lines 157-167: the new list of constraints of the path
removed(cons) ==
  IF ~preconstrain THEN cons
  ELSE [i \in 1..Len(cons) |-> replace_all(cons[i], preconstraints)]

\* Tracer.remove_preconstraints(path), on the path the caller holds
remove_preconstraints ==
  /\ pc = "ready"
  /\ last_call \in {"obtain", "remove"}
  /\ path_cons' = removed(path_cons)
  /\ last_call' = "remove"
  /\ UNCHANGED <<pc, mode, binary, driller_qemu, input, preconstrain, ret,
                 crash_mode, trace, preconstraints, entry, bb_cnt, previous,
                 path_group, branches, error, returned, oob, spawned, mktemps,
                 tmpfiles, repeats, snapshot>>

(* ---------------------------- specifications -------------------------- *)
Inputs == SeqsUpTo(Byte, MaxInput)
FewInputs == {<<>>, <<1, 0>>}
Traces == SeqsUpTo(Addr, MaxTrace)

\* new Tracer(binary, input, preconstrain), on an input out of Ins
Construct(Ins) ==
  \/ \E b, q \in FileStatus, inp \in Ins, pre \in BOOLEAN : Tracer_init(b, q, inp, pre)
  \/ \E r \in RetCodes : _dynamic_trace_run(r)

Next ==
  \/ Construct(FewInputs)
  \/ _dynamic_trace_oserror
  \/ \E t \in Traces : _dynamic_trace_read(t)
  \/ \E exc \in {"OSError", "struct.error"} : _load_backed_raises(exc)
  \/ \E e \in Entries, succs \in SuccSeqs : _prepare_paths(e, succs)
  \/ call_next_branch
  \/ call_run
  \/ nb_index_error
  \/ \E succs \in SuccSeqs : nb_lockstep(succs)
  \/ \E succs \in SuccSeqs : nb_repeat(succs)
  \/ nb_misfollow
  \/ nb_split_index_error
  \/ nb_split
  \/ run_while
  \/ obtain_path(SeqsUpTo(FewTerms, 1))
  \/ remove_preconstraints

Spec == Init /\ [][Next]_vars

\* The caller only takes paths and removes their preconstraints: every input
\* and every list of constraints, on a trace of one block.
NextRemove ==
  \/ Construct(Inputs)
  \/ \E t \in SeqsUpTo(Addr, 1) : _dynamic_trace_read(t)
  \/ \E e \in Entries : _prepare_paths(e, <<>>)
  \/ obtain_path(SeqsUpTo(Terms, MaxExtra))
  \/ remove_preconstraints

SpecRemove == Init /\ [][NextRemove]_vars

\* The engine follows the trace: every step yields the one path at the next
\* block of the trace, and no path after the last block.
IsDistinct(t) == \A i, j \in 1..Len(t) : t[i] = t[j] => i = j
DistinctTraces == {t \in Traces : IsDistinct(t)}
OnTrace(a) == <<[addr |-> a, sat |-> TRUE]>>
Follow == IF bb_cnt + 1 < Len(trace) THEN OnTrace(At(trace, bb_cnt + 1)) ELSE <<>>

NextStraight ==
  \/ Construct(FewInputs)
  \/ \E t \in DistinctTraces : _dynamic_trace_read(t)
  \/ \E e \in Entries : _prepare_paths(e, OnTrace(e + TrapOffset))
  \/ call_run
  \/ nb_lockstep(Follow)
  \/ nb_split_index_error

SpecStraight == Init /\ [][NextStraight]_vars

\* Only the snapshot is taken: every dump of the emulator, on one trace.
NextSnapshot ==
  \/ Construct({<<>>})
  \/ _dynamic_trace_read(<<1>>)
  \/ \E rs \in RecSeqs, rawip \in RawIps, cut \in BOOLEAN, rest \in Trailers :
        _load_backed_predump(rs, rawip, cut, rest)
  \/ _load_backed_parse

SpecSnapshot == Init /\ [][NextSnapshot]_vars

\* next_branch() with the step of the engine (line 108) and what is done with
\* its unsat paths (lines 111-115) as two steps.
NextStep ==
  \/ Construct(FewInputs)
  \/ \E t \in Traces : _dynamic_trace_read(t)
  \/ \E e \in Entries, succs \in SuccSeqs : _prepare_paths(e, succs)
  \/ call_next_branch
  \/ nb_index_error
  \/ \E succs \in SuccSeqs : nb_lockstep_step(succs)
  \/ \E succs \in SuccSeqs : nb_repeat_step(succs)
  \/ nb_filter
  \/ nb_misfollow
  \/ nb_split_index_error
  \/ nb_split

SpecStep == Init /\ [][NextStep]_vars

\* run() on an engine that moves on: no successor of a path is at the address
\* of that path, so that no block is repeated and every step of the engine
\* matches a block of the trace.  The tracer takes its next step whenever it
\* has one.
Onward(a) == {succs \in SuccSeqs : \A i \in 1..Len(succs) : succs[i].addr # a}

NextRun ==
  \/ Construct({<<>>})
  \/ \E t \in Traces : _dynamic_trace_read(t)
  \/ \E e \in Entries, succs \in SuccSeqs : _prepare_paths(e, succs)
  \/ call_run
  \/ nb_index_error
  \/ OneActive /\ \E succs \in Onward(current.addr) : nb_lockstep(succs)
  \/ nb_misfollow
  \/ nb_split_index_error
  \/ nb_split
  \/ run_while

SpecRun == Init /\ [][NextRun]_vars /\ WF_vars(NextRun)

(* -------------------------------- claims ------------------------------ *)
RunEnded == pc = "ready" /\ last_call = "run"
RunReturned == RunEnded /\ error = "none"
NextBranchReturned == pc = "ready" /\ last_call = "next_branch" /\ error = "none"
LastBlock == Path(trace[Len(trace)])

\* C1 (as claimed): with crash_mode unset, a trace of distinct blocks and an
\* engine that visits exactly the blocks of the trace, one active path at a
\* time, and then ends, run() returns normally, the path is in the deadended
\* stash of what it returns and bb_cnt is the length of the trace.
C1_RunYieldsDeadended ==
  (RunEnded /\ ~crash_mode /\ At(trace, 0) = entry + TrapOffset)
    => /\ error = "none"
       /\ returned.deadended = <<LastBlock>>
       /\ bb_cnt = Len(trace)

\* C2 (as claimed): when crash_mode is set and the trace is exhausted, run()
\* returns a path group with exactly one path in crashed, the last matched
\* address being trace[bb_cnt-1], whatever the exploration was.
C2_CrashYieldsOnePath ==
  (RunEnded /\ crash_mode /\ oob)
    => /\ error = "none"
       /\ Len(returned.crashed) = 1
       /\ previous = <<At(trace, bb_cnt - 1)>>

\* the one active path is at neither trace[bb_cnt] nor previous
Diverged ==
  /\ OneActive
  /\ InTrace
  /\ current.addr # At(trace, bb_cnt)
  /\ <<current.addr>> # previous

\* C3: when the one active path is at neither trace[bb_cnt] nor previous,
\* next_branch raises TracerMisfollowError: the engine is not stepped and
\* bb_cnt and previous stay as they are.
C3_MisfollowRaised ==
  [][Diverged => /\ pc' = "ready"
                 /\ error' = "TracerMisfollowError"
                 /\ path_group' = path_group
                 /\ bb_cnt' = bb_cnt
                 /\ previous' = previous]_vars

C3_Witness ==
  /\ pc = "ready"
  /\ error = "TracerMisfollowError"
  /\ Len(path_group.active) = 1
  /\ InTrace
  /\ current.addr # At(trace, bb_cnt)
  /\ <<current.addr>> # previous

\* three active paths, one of them at trace[bb_cnt]
OnBranch(p) == p.addr = At(trace, bb_cnt)
OffBranch(p) == p.addr # At(trace, bb_cnt)
BranchTXY ==
  /\ pc = "loop"
  /\ InTrace
  /\ Len(path_group.active) = 3
  /\ Len(SelectSeq(path_group.active, OnBranch)) = 1

\* what next_branch hands back: to the caller, or to run()
HandedBack == IF mode = "next_branch" THEN returned' ELSE branches'

\* C4 (as claimed): at a branch with paths at trace[bb_cnt], X and Y, after the
\* split only the path at trace[bb_cnt] is active and the paths at X and Y are
\* in no stash that can still be reached: not in the path group the tracer
\* keeps and not in the one it hands back.
C4_MissedUnreachable ==
  [][BranchTXY => /\ path_group'.active = SelectSeq(path_group.active, OnBranch)
                  /\ path_group'.missed = <<>>
                  /\ HandedBack.active = SelectSeq(path_group.active, OnBranch)
                  /\ HandedBack.missed = <<>>]_vars

\* C4 (amended): at such a branch, after the split only the path at
\* trace[bb_cnt] is active, in the path group the tracer keeps and in the one
\* it hands back; the paths at X and Y are in no stash of the path group the
\* tracer keeps, and they are the missed stash of the one it hands back.
C4_MissedOnlyHandedBack ==
  [][BranchTXY => /\ path_group'.active = SelectSeq(path_group.active, OnBranch)
                  /\ path_group'.missed = <<>>
                  /\ HandedBack.active = SelectSeq(path_group.active, OnBranch)
                  /\ HandedBack.missed = SelectSeq(path_group.active, OffBranch)]_vars

C4_Witness ==
  /\ NextBranchReturned
  /\ InTrace
  /\ Len(returned.active) = 1
  /\ Len(returned.missed) = 2
  /\ path_group.active = returned.active
  /\ path_group.missed = <<>>

\* C5 (as claimed): what run() returns has no active path and has the traced
\* path in crashed or in deadended.
C5_RunReturnsTerminal ==
  RunReturned => /\ returned.active = <<>>
                 /\ returned.crashed # <<>> \/ returned.deadended # <<>>

\* C6 (as claimed): indexing the trace past its end is never passed over: with
\* crash_mode unset the call ends with TracerDynamicTraceOOBError, with
\* crash_mode set run() ends with the crashed result.
C6_OutOfTraceSurfaces ==
  oob => /\ pc # "while"
         /\ (pc = "ready" /\ ~crash_mode) => error = "TracerDynamicTraceOOBError"
         /\ (RunEnded /\ crash_mode) => error = "none" /\ returned.crashed # <<>>

\* C7 (as claimed): next_branch never returns normally having put every
\* active path into missed.
C7_NoReturnWithAllMissed ==
  NextBranchReturned => ~(returned.active = <<>> /\ returned.missed # <<>>)

\* C8: once the tracer is built, the preconstraints are, with preconstraining,
\* one per byte of the input, the i-th fixing offset i to input[i], and
\* without it none; next_branch, run and remove_preconstraints keep them so.
C8_OnePreconstraintPerByte ==
  pc \in {"ready", "loop", "while"}
    => preconstraints = IF preconstrain
                          THEN [i \in 1..Len(input) |-> EqT(i - 1, input[i])]
                          ELSE <<>>

C8_Witness ==
  /\ preconstrain
  /\ Len(input) = 2
  /\ Len(preconstraints) = 2
  /\ last_call = "remove"
  /\ returned # EmptyPG

IsPreconstraint(t) == \E j \in 1..Len(preconstraints) : t = preconstraints[j]
HasPreconstraint(c) == \E j \in 1..Len(preconstraints) : Contains(c, preconstraints[j])

RECURSIVE Cleared(_)
\* c with every preconstraint in it replaced by true, all at once
Cleared(c) ==
  IF IsPreconstraint(c) THEN TrueT
  ELSE IF c[1] = "not" THEN NotT(Cleared(c[2]))
  ELSE IF c[1] = "and" THEN AndT(Cleared(c[2]), Cleared(c[3]))
  ELSE c

\* C9: remove_preconstraints leaves the path as it is when preconstraining is
\* off; otherwise no constraint of the path contains a preconstraint any more,
\* each occurrence being replaced by true, the constraints are as many and in
\* the same order, and those without a preconstraint are as before.  A second
\* removal changes nothing.
C9_PreconstraintsRemoved ==
  [][last_call' = "remove" =>
       /\ ~preconstrain => path_cons' = path_cons
       /\ Len(path_cons') = Len(path_cons)
       /\ \A i \in 1..Len(path_cons) :
            /\ ~HasPreconstraint(path_cons'[i])
            /\ path_cons'[i] = Cleared(path_cons[i])
            /\ ~HasPreconstraint(path_cons[i]) => path_cons'[i] = path_cons[i]
       /\ last_call = "remove" => path_cons' = path_cons]_vars

C9_Witness ==
  /\ last_call = "remove"
  /\ preconstrain
  /\ Len(preconstraints) = 2
  /\ Len(path_cons) = 3
  /\ path_cons[1] = TrueT
  /\ path_cons[2] = TrueT
  /\ path_cons[3] = NotT(AndT(TrueT, EqT(1, 1 - input[2])))

\* C10: when the binary or the emulator is missing or not executable,
\* construction ends with TracerEnvironmentError, no process spawned, no
\* temporary file made, and no trace, crash flag or path group produced.
C10_EnvironmentCheckedFirst ==
  (pc # "new" /\ (~X_OK(binary) \/ ~X_OK(driller_qemu)))
    => /\ pc = "failed"
       /\ error = "TracerEnvironmentError"
       /\ spawned = 0
       /\ mktemps = 0
       /\ tmpfiles = {}
       /\ trace = <<>>
       /\ ~crash_mode
       /\ path_group = EmptyPG

C10_Witness ==
  /\ pc = "failed"
  /\ binary = "exec"
  /\ driller_qemu = "noexec"
  /\ error = "TracerEnvironmentError"

\* C11 (as claimed): no temporary file made by _dynamic_trace or _load_backed
\* exists once the operation that made it has ended, however it ended: outside
\* of _dynamic_trace (which is between making and reading the log when pc is
\* "read") the set of temporary files is empty.
C11_TempFilesRemoved == pc # "read" => tmpfiles = {}

\* C12: when _dynamic_trace has run the emulator, crash_mode is set if and only
\* if the exit code is negative and its absolute value is SIGSEGV or SIGILL,
\* and nothing changes crash_mode afterwards.
C12_CrashFlagIffCrashSignal ==
  [][/\ (pc = "trace" /\ pc' = "read") =>
          (crash_mode' <=> (ret' < 0 /\ Abs(ret') \in {SIGSEGV, SIGILL}))
     /\ pc \notin {"new", "trace"} => crash_mode' = crash_mode]_vars

C12_Witness == pc = "read" /\ ret = -SIGILL /\ crash_mode

\* C13: when the dump holds memory entries of distinct regions and then the
\* register block, the memory read from it has exactly one entry per memory
\* entry before the register block, keyed by the start of the entry and
\* holding its bytes, as many as its length; nothing after the register
\* block is read; and eip is the raw value of the dump minus 2.
C13_SnapshotDecoded ==
  snapshot.phase = "parsed" =>
    LET rs == snapshot.recs
    IN /\ DOMAIN snapshot.memory = {rs[i].start : i \in 1..Len(rs)}
       /\ \A i \in 1..Len(rs) : snapshot.memory[rs[i].start] = rs[i].content
       /\ snapshot.regs["eip"] = snapshot.rawip - 2
       /\ DOMAIN snapshot.regs = {RegLayout[i][1] : i \in 1..Len(RegLayout)}

\* the example of the claim: one entry at 0x1000 with two bytes, raw ip
\* 0x08048080, read as exactly that entry and ip 0x0804807e
C13_Witness ==
  /\ snapshot.phase = "parsed"
  /\ snapshot.recs = <<[start |-> 4096, content |-> <<144, 144>>]>>
  /\ snapshot.rawip = 134512768
  /\ Len(snapshot.file) > 14 + 4 + 312
  /\ DOMAIN snapshot.memory = {4096}
  /\ snapshot.memory[4096] = <<144, 144>>
  /\ snapshot.regs["eip"] = 134512766

\* C14: when next_branch ends its loop inside the trace, the path group it
\* hands back has as missed stash exactly the paths that were active and not
\* at trace[bb_cnt], in their order, and as active stash exactly those at
\* trace[bb_cnt]; the path group the tracer keeps has the same active stash
\* and an empty missed stash.
C14_BranchPointReturned ==
  [][(pc = "loop" /\ Len(path_group.active) # 1 /\ InTrace) =>
       /\ HandedBack.missed = SelectSeq(path_group.active, OffBranch)
       /\ HandedBack.active = SelectSeq(path_group.active, OnBranch)
       /\ path_group'.active = HandedBack.active
       /\ path_group'.missed = <<>>]_vars

C14_Witness ==
  /\ NextBranchReturned
  /\ InTrace
  /\ Len(returned.active) = 2
  /\ Len(returned.missed) = 1
  /\ \A i \in 1..2 : OnBranch(returned.active[i])
  /\ OffBranch(returned.missed[1])
  /\ path_group.active = returned.active
  /\ path_group.missed = <<>>

\* C15 (as claimed): only one repeated block is passed over; the tracer never
\* passes over a second repeated block in a row (a step of the one active
\* path at previous and not at trace[bb_cnt], right after such a step).
C15_SingleRepeatOnly == repeats <= 1

\* C16: bb_cnt never decreases and never exceeds the length of the trace; a
\* step of next_branch adds exactly 1 to it if the one active path is at
\* trace[bb_cnt] (whether or not that is also previous) and leaves it as it is
\* otherwise: on a repeated block, on a disagreement, on an IndexError and
\* at the split.
C16_CursorMonotone ==
  [][/\ bb_cnt' >= bb_cnt
     /\ bb_cnt' <= Len(trace')
     /\ pc = "loop" =>
          bb_cnt' = IF OneActive /\ InTrace /\ current.addr = At(trace, bb_cnt)
                    THEN bb_cnt + 1 ELSE bb_cnt]_vars

\* the whole trace was matched from its first block on, and its last block,
\* which is also the block before it, was matched while it was previous
C16_Witness ==
  /\ pc = "loop"
  /\ Len(trace) = 3
  /\ bb_cnt = 3
  /\ At(trace, 0) = entry + TrapOffset
  /\ At(trace, 1) = At(trace, 2)
  /\ previous = <<At(trace, 2)>>

\* C17: what next_branch does right after a step of the engine leaves the
\* unsat stash empty and the other stashes but active as they are; when the
\* input was preconstrained the paths of the unsat stash are put after the
\* active ones, and when it was not the active stash stays as the engine left
\* it, so that the unsat paths are in no stash.  Once a block was matched,
\* the unsat stash is empty whenever the loop is entered or left, and so is
\* the unsat stash of what next_branch returns.
C17_UnsatFiltered ==
  [][/\ pc = "filter" =>
          /\ path_group'.unsat = <<>>
          /\ path_group'.active =
                IF preconstrain THEN path_group.active \o path_group.unsat
                                ELSE path_group.active
          /\ path_group'.missed = path_group.missed
          /\ path_group'.deadended = path_group.deadended
          /\ path_group'.crashed = path_group.crashed
     /\ (pc \in {"loop", "ready"} /\ previous # <<>>) =>
          /\ path_group.unsat = <<>>
          /\ returned.unsat = <<>>]_vars

\* a preconstrained path ran out of satisfiable successors and next_branch
\* went on with paths the engine had put into unsat
C17_Witness ==
  /\ pc = "loop"
  /\ preconstrain
  /\ previous # <<>>
  /\ Len(path_group.deadended) = 1
  /\ Len(path_group.active) = 2
  /\ path_group.unsat = <<>>

\* C18: when construction has ended well, bb_cnt is the smallest index of the
\* trace whose address is the entry plus 2; construction ends with IndexError
\* exactly when the trace has no such address, and then bb_cnt is the length
\* of the trace.
C18_WoundUpToEntry ==
  LET IsEntry(i) == At(trace, i) = entry + 2
  IN /\ (pc = "ready" /\ last_call = "new") =>
          /\ InTrace
          /\ IsEntry(bb_cnt)
          /\ \A i \in 0..(bb_cnt - 1) : ~IsEntry(i)
     /\ (pc = "failed" /\ error = "IndexError") =>
          /\ \A i \in 0..(Len(trace) - 1) : ~IsEntry(i)
          /\ bb_cnt = Len(trace)

\* two blocks of the trace were skipped
C18_Witness ==
  /\ pc = "ready"
  /\ last_call = "new"
  /\ bb_cnt = 2
  /\ At(trace, 0) # entry + 2
  /\ At(trace, 1) # entry + 2

\* C19 (as claimed): on a finite trace and an engine whose steps all return,
\* every call of run() ends, by returning or by raising.
C19_RunEnds == (mode \in {"run1", "run2"}) ~> (pc = "ready")

\* C20: previous is None or the address of the trace just before bb_cnt.
C20_PreviousIsLastMatched ==
  \/ previous = <<>>
  \/ bb_cnt >= 1 /\ previous = <<At(trace, bb_cnt - 1)>>

\* next_branch has returned from a branch that followed a matched block and
\* a repeat of it
C20_Witness ==
  /\ NextBranchReturned
  /\ repeats = 1
  /\ bb_cnt >= 1
  /\ previous = <<At(trace, bb_cnt - 1)>>
  /\ Len(returned.active) + Len(returned.missed) >= 2

====
